---- MODULE Spec2Model ----
(***************************************************************************)
(* Model of the inventory catalog schema (inventory/models.py) and of the  *)
(* admin write path (inventory/admin.py).  Tables are functions from the   *)
(* primary keys in use to rows; every write is one action that either      *)
(* commits or fails with the error the ORM raises, leaving the tables      *)
(* unchanged.  Strings that the code transforms (names, slugs) are         *)
(* sequences of one-character strings.                                     *)
(***************************************************************************)
EXTENDS Integers, Sequences, FiniteSets, TLC

\* ------------------------------------------------------------------ bounds
MaxCategory == 2
MaxSeasonalEvent == 2
MaxProductType == 2
MaxProduct == 2
MaxProductLine == 2
MaxProductImage == 2
MaxAttribute == 1
MaxAttributeValue == 1
MaxLink == 2
MaxTime == 1

NULL == 0

\* ------------------------------------------------- django.utils.text.slugify
UpperCase == <<"A","B","C","D","E","F","G","H","I","J","K","L","M",
               "N","O","P","Q","R","S","T","U","V","W","X","Y","Z">>

LowerCase == <<"a","b","c","d","e","f","g","h","i","j","k","l","m",
               "n","o","p","q","r","s","t","u","v","w","x","y","z">>

Digits == {"0","1","2","3","4","5","6","7","8","9"}

Range(s) == {s[i] : i \in DOMAIN s}

\* str.lower() on the ASCII letters
LowerOf == [c \in Range(UpperCase) |->
               LowerCase[CHOOSE i \in DOMAIN UpperCase : UpperCase[i] = c]]

Lower(c) == IF c \in DOMAIN LowerOf THEN LowerOf[c] ELSE c

\* unicodedata.normalize("NFKD", c).encode("ascii", "ignore") on one character:
\* an accented letter keeps its base letter, any other non-ASCII character
\* is dropped
AsciiOf(c) ==
    CASE c = "é" -> <<"e">>
      [] c = "É" -> <<"E">>
      [] c = "ß" -> << >>
      [] OTHER -> <<c>>

\* \w of the regular expressions, on ASCII
WordChars == Range(UpperCase) \cup Range(LowerCase) \cup Digits \cup {"_"}

IsWordChar(c) == c \in WordChars

\* \s of the regular expressions
IsSpace(c) == c \in {" ", "\t", "\n"}

RECURSIVE NormalizeAscii(_)
NormalizeAscii(s) ==
    IF s = << >> THEN << >> ELSE AsciiOf(Head(s)) \o NormalizeAscii(Tail(s))

\* re.sub(r"[-\s]+", "-", s)
RECURSIVE CollapseRuns(_)
CollapseRuns(s) ==
    IF s = << >> THEN << >>
    ELSE IF Head(s) = "-" \/ IsSpace(Head(s))
         THEN LET rest == CollapseRuns(Tail(s))
              IN IF rest # << >> /\ Head(rest) = "-" THEN rest ELSE <<"-">> \o rest
         ELSE <<Head(s)>> \o CollapseRuns(Tail(s))

\* str.strip("-_")
RECURSIVE StripLeft(_)
StripLeft(s) ==
    IF s # << >> /\ Head(s) \in {"-", "_"} THEN StripLeft(Tail(s)) ELSE s

RECURSIVE StripRight(_)
StripRight(s) ==
    IF s # << >> /\ s[Len(s)] \in {"-", "_"}
    THEN StripRight(SubSeq(s, 1, Len(s) - 1)) ELSE s

Strip(s) == StripRight(StripLeft(s))

slugify(value) ==
    LET ascii == NormalizeAscii(value)
        lowered == [i \in DOMAIN ascii |-> Lower(ascii[i])]
        kept == SelectSeq(lowered, LAMBDA c : IsWordChar(c) \/ IsSpace(c) \/ c = "-")
    IN Strip(CollapseRuns(kept))

\* ------------------------------------------------------------------- state
VARIABLES
    category,          \* Category rows: id -> [name, slug, is_active, parent]
    seasonal_event,    \* SeasonalEvent rows: id -> [name]
    product_type,      \* ProductType rows: id -> [name, parent]
    product,           \* Product rows: id -> [name, slug, stock_status, created_at,
                       \*                      updated_at, category, seasonal_event]
    product_product_type,   \* rows of the table behind Product.product_type
    product_producttype,    \* Product_ProductType rows: id -> [product, product_type]
    attribute,         \* Attribute rows: id -> [name]
    attribute_value,   \* AttributeValue rows: id -> [attribute]
    product_line,      \* ProductLine rows: id -> [sku, product]
    productline_attribute_values, \* rows of the table behind ProductLine.attribute_values
    productline_attributevalue,   \* ProductLine_AttributeValue rows
    product_image,     \* ProductImage rows: id -> [product_line]
    seq,               \* next primary key of every table (BigAutoField)
    now,               \* the clock read by auto_now / auto_now_add
    last               \* the last write and how it ended

tables == <<category, seasonal_event, product_type, product, product_product_type,
            product_producttype, attribute, attribute_value, product_line,
            productline_attribute_values, productline_attributevalue, product_image>>

vars == <<category, seasonal_event, product_type, product, product_product_type,
          product_producttype, attribute, attribute_value, product_line,
          productline_attribute_values, productline_attributevalue, product_image,
          seq, now, last>>

Empty == [i \in {} |-> NULL]

\* the rows of table t without the row of primary key id
Without(t, ids) == [i \in DOMAIN t \ ids |-> t[i]]

\* table t with row r stored under primary key id (INSERT or UPDATE)
With(t, id, r) == [i \in DOMAIN t \cup {id} |-> IF i = id THEN r ELSE t[i]]

NoWrite == [op |-> "none", id |-> NULL, name |-> << >>, slug |-> << >>, result |-> "ok"]

Wrote(op, id, name, slug, result) ==
    [op |-> op, id |-> id, name |-> name, slug |-> slug, result |-> result]

Init ==
    /\ category = Empty
    /\ seasonal_event = Empty
    /\ product_type = Empty
    /\ product = Empty
    /\ product_product_type = {}
    /\ product_producttype = Empty
    /\ attribute = Empty
    /\ attribute_value = Empty
    /\ product_line = Empty
    /\ productline_attribute_values = {}
    /\ productline_attributevalue = Empty
    /\ product_image = Empty
    /\ seq = [t \in {"category", "seasonal_event", "product_type", "product",
                     "product_producttype", "attribute", "attribute_value",
                     "product_line", "productline_attributevalue",
                     "product_image"} |-> 1]
    /\ now = 0
    /\ last = NoWrite

\* the primary key a save writes to: the instance's, or the next of the sequence
PkOf(t, id) == IF id = NULL THEN seq[t] ELSE id

NextSeq(t, id) == IF id = NULL THEN [seq EXCEPT ![t] = @ + 1] ELSE seq

\* an INSERT is modelled only while the table's sequence is within its bound
Room(t, id, max) == id = NULL => seq[t] <= max

\* ---------------------------------------------------------------- Category
\* Category with unique=True on name only
Category_unique_name_only(id, name, slug) ==
    \A k \in DOMAIN category \ {id} : category[k].name # name

\* Category.name and Category.slug are unique=True
Category_unique(id, name, slug) ==
    \A k \in DOMAIN category \ {id} :
        category[k].name # name /\ category[k].slug # slug

\* a save without the derivation of the slug
pre_save_slug_never(name, slug) == slug

\* the slug Category.save and Product.save store
pre_save_slug(name, slug) == IF slug = << >> THEN slugify(name) ELSE slug

\* Category.save of an instance with primary key id (NULL: a new row)
Category_save(id, name, slug, is_active, parent) ==
    LET pk == PkOf("category", id)
        s == pre_save_slug(name, slug)
    IN /\ id = NULL \/ id \in DOMAIN category
       /\ Room("category", id, MaxCategory)
       /\ parent = NULL \/ parent \in DOMAIN category
       /\ IF Category_unique(pk, name, s)
          THEN /\ category' = With(category, pk, [name |-> name, slug |-> s,
                                   is_active |-> is_active, parent |-> parent])
               /\ seq' = NextSeq("category", id)
               /\ last' = Wrote("Category.save", pk, name, slug, "ok")
          ELSE /\ last' = Wrote("Category.save", id, name, slug, "IntegrityError")
               /\ UNCHANGED <<category, seq>>
       /\ UNCHANGED <<seasonal_event, product_type, product, product_product_type,
                      product_producttype, attribute, attribute_value, product_line,
                      productline_attribute_values, productline_attributevalue,
                      product_image, now>>

\* Category.parent as on_delete=CASCADE would see it: nothing protects c
Category_children_unprotected(c) == {}

\* the rows Category.parent (on_delete=PROTECT) protects c with
Category_children(c) == {k \in DOMAIN category : category[k].parent = c}

\* Product.category as on_delete=CASCADE: the products of c go with it
Product_category_CASCADE(c) ==
    [p \in {k \in DOMAIN product : product[k].category # c} |-> product[p]]

\* Product.category is on_delete=SET_NULL
Product_category_SET_NULL(c) ==
    [p \in DOMAIN product |->
        IF product[p].category = c THEN [product[p] EXCEPT !.category = NULL]
        ELSE product[p]]

Category_delete(c) ==
    /\ c \in DOMAIN category
    /\ IF Category_children(c) # {}
       THEN /\ last' = Wrote("Category.delete", c, << >>, << >>, "ProtectedError")
            /\ UNCHANGED <<category, product>>
       ELSE /\ category' = Without(category, {c})
            /\ product' = Product_category_SET_NULL(c)
            /\ last' = Wrote("Category.delete", c, << >>, << >>, "ok")
    /\ UNCHANGED <<seasonal_event, product_type, product_product_type,
                   product_producttype, attribute, attribute_value, product_line,
                   productline_attribute_values, productline_attributevalue,
                   product_image, seq, now>>

\* ----------------------------------------------------------- SeasonalEvent
\* SeasonalEvent.name is unique=True
SeasonalEvent_unique(id, name) ==
    \A k \in DOMAIN seasonal_event \ {id} : seasonal_event[k].name # name

SeasonalEvent_save(id, name) ==
    LET pk == PkOf("seasonal_event", id)
    IN /\ id = NULL \/ id \in DOMAIN seasonal_event
       /\ Room("seasonal_event", id, MaxSeasonalEvent)
       /\ IF SeasonalEvent_unique(pk, name)
          THEN /\ seasonal_event' = With(seasonal_event, pk, [name |-> name])
               /\ seq' = NextSeq("seasonal_event", id)
               /\ last' = Wrote("SeasonalEvent.save", pk, name, << >>, "ok")
          ELSE /\ last' = Wrote("SeasonalEvent.save", id, name, << >>, "IntegrityError")
               /\ UNCHANGED <<seasonal_event, seq>>
       /\ UNCHANGED <<category, product_type, product, product_product_type,
                      product_producttype, attribute, attribute_value, product_line,
                      productline_attribute_values, productline_attributevalue,
                      product_image, now>>

\* Product.seasonal_event is on_delete=SET_NULL
Product_seasonal_event_SET_NULL(e) ==
    [p \in DOMAIN product |->
        IF product[p].seasonal_event = e
        THEN [product[p] EXCEPT !.seasonal_event = NULL]
        ELSE product[p]]

SeasonalEvent_delete(e) ==
    /\ e \in DOMAIN seasonal_event
    /\ seasonal_event' = Without(seasonal_event, {e})
    /\ product' = Product_seasonal_event_SET_NULL(e)
    /\ last' = Wrote("SeasonalEvent.delete", e, << >>, << >>, "ok")
    /\ UNCHANGED <<category, product_type, product_product_type,
                   product_producttype, attribute, attribute_value, product_line,
                   productline_attribute_values, productline_attributevalue,
                   product_image, seq, now>>

\* -------------------------------------------------------------- ProductType
ProductType_save(id, name, parent) ==
    LET pk == PkOf("product_type", id)
    IN /\ id = NULL \/ id \in DOMAIN product_type
       /\ Room("product_type", id, MaxProductType)
       /\ parent = NULL \/ parent \in DOMAIN product_type
       /\ product_type' = With(product_type, pk, [name |-> name, parent |-> parent])
       /\ seq' = NextSeq("product_type", id)
       /\ last' = Wrote("ProductType.save", pk, name, << >>, "ok")
       /\ UNCHANGED <<category, seasonal_event, product, product_product_type,
                      product_producttype, attribute, attribute_value, product_line,
                      productline_attribute_values, productline_attributevalue,
                      product_image, now>>

\* the rows ProductType.parent (on_delete=PROTECT) protects t with
ProductType_children(t) == {k \in DOMAIN product_type : product_type[k].parent = t}

\* a foreign key with on_delete=DO_NOTHING: no row follows the delete
Referring_nothing(t, fk, ids) == {}

\* the rows of a link table whose foreign key fk is one of ids (on_delete=CASCADE)
Referring(t, fk, ids) == {k \in DOMAIN t : t[k][fk] \in ids}

ProductType_delete(t) ==
    /\ t \in DOMAIN product_type
    /\ IF ProductType_children(t) # {}
       THEN /\ last' = Wrote("ProductType.delete", t, << >>, << >>, "ProtectedError")
            /\ UNCHANGED <<product_type, product_product_type, product_producttype>>
       ELSE /\ product_type' = Without(product_type, {t})
            /\ product_producttype' =
                   Without(product_producttype,
                           Referring(product_producttype, "product_type", {t}))
            /\ product_product_type' = {r \in product_product_type : r[2] # t}
            /\ last' = Wrote("ProductType.delete", t, << >>, << >>, "ok")
    /\ UNCHANGED <<category, seasonal_event, product, attribute, attribute_value,
                   product_line, productline_attribute_values,
                   productline_attributevalue, product_image, seq, now>>

\* ------------------------------------------------------------------ Product
IN_STOCK == "IS"

OUT_OF_STOCK == "OOS"

BACKORDERED == "BO"

STOCK_STATUS == {IN_STOCK, OUT_OF_STOCK, BACKORDERED}

\* Product.name and Product.slug are unique=True
Product_unique(id, name, slug) ==
    \A k \in DOMAIN product \ {id} :
        product[k].name # name /\ product[k].slug # slug

\* created_at as auto_now=True: the clock on every save
created_at_auto_now(id) == now

\* DateTimeField(auto_now_add=True).pre_save: the clock on INSERT, the loaded
\* value on UPDATE
created_at_pre_save(id) == IF id = NULL THEN now ELSE product[id].created_at

\* DateTimeField(auto_now=True).pre_save: the clock on every save
updated_at_pre_save(id) == now

\* Product.save of an instance with primary key id (NULL: a new row); op names
\* the caller for the record of the write
Product_write(op, id, name, slug, stock_status, cat, event) ==
    LET pk == PkOf("product", id)
        s == pre_save_slug(name, slug)
    IN IF Product_unique(pk, name, s)
       THEN /\ product' = With(product, pk,
                               [name |-> name, slug |-> s,
                                stock_status |-> stock_status,
                                created_at |-> created_at_pre_save(id),
                                updated_at |-> updated_at_pre_save(id),
                                category |-> cat, seasonal_event |-> event])
            /\ seq' = NextSeq("product", id)
            /\ last' = Wrote(op, pk, name, slug, "ok")
       ELSE /\ last' = Wrote(op, id, name, slug, "IntegrityError")
            /\ UNCHANGED <<product, seq>>

Product_save(id, name, slug, stock_status, cat, event) ==
    /\ id = NULL \/ id \in DOMAIN product
    /\ Room("product", id, MaxProduct)
    /\ cat = NULL \/ cat \in DOMAIN category
    /\ event = NULL \/ event \in DOMAIN seasonal_event
    /\ Product_write("Product.save", id, name, slug, stock_status, cat, event)
    /\ UNCHANGED <<category, seasonal_event, product_type, product_product_type,
                   product_producttype, attribute, attribute_value, product_line,
                   productline_attribute_values, productline_attributevalue,
                   product_image, now>>

\* Model.full_clean as the admin's form runs it before the save: the choices of
\* stock_status, the required category (null=True without blank=True) and
\* validate_unique on name and slug
Product_full_clean(id, name, slug, stock_status, cat) ==
    IF stock_status \notin STOCK_STATUS THEN "ValidationError"
    ELSE IF cat = NULL THEN "ValidationError"
    ELSE IF ~Product_unique(PkOf("product", id), name, slug) THEN "ValidationError"
    ELSE "ok"

\* ProductAdmin: the add and change views validate the form, then save
ProductAdmin_save(id, name, slug, stock_status, cat, event) ==
    /\ id = NULL \/ id \in DOMAIN product
    /\ Room("product", id, MaxProduct)
    /\ cat = NULL \/ cat \in DOMAIN category
    /\ event = NULL \/ event \in DOMAIN seasonal_event
    /\ IF Product_full_clean(id, name, slug, stock_status, cat) # "ok"
       THEN /\ last' = Wrote("ProductAdmin.save", id, name, slug,
                             Product_full_clean(id, name, slug, stock_status, cat))
            /\ UNCHANGED <<product, seq>>
       ELSE Product_write("ProductAdmin.save", id, name, slug, stock_status, cat, event)
    /\ UNCHANGED <<category, seasonal_event, product_type, product_product_type,
                   product_producttype, attribute, attribute_value, product_line,
                   productline_attribute_values, productline_attributevalue,
                   product_image, now>>

\* ProductLine.product without PROTECT: nothing protects p
Product_lines_unprotected(p) == {}

\* the rows ProductLine.product (on_delete=PROTECT) protects p with
Product_lines(p) == {l \in DOMAIN product_line : product_line[l].product = p}

Product_delete(p) ==
    /\ p \in DOMAIN product
    /\ IF Product_lines(p) # {}
       THEN /\ last' = Wrote("Product.delete", p, << >>, << >>, "ProtectedError")
            /\ UNCHANGED <<product, product_product_type, product_producttype>>
       ELSE /\ product' = Without(product, {p})
            /\ product_producttype' =
                   Without(product_producttype,
                           Referring(product_producttype, "product", {p}))
            /\ product_product_type' = {r \in product_product_type : r[1] # p}
            /\ last' = Wrote("Product.delete", p, << >>, << >>, "ok")
    /\ UNCHANGED <<category, seasonal_event, product_type, attribute, attribute_value,
                   product_line, productline_attribute_values,
                   productline_attributevalue, product_image, seq, now>>

\* product.product_type.add(t): a row of the table behind the ManyToManyField
Product_product_type_add(p, t) ==
    /\ p \in DOMAIN product
    /\ t \in DOMAIN product_type
    /\ product_product_type' = product_product_type \cup {<<p, t>>}
    /\ last' = Wrote("Product.product_type.add", p, << >>, << >>, "ok")
    /\ UNCHANGED <<category, seasonal_event, product_type, product,
                   product_producttype, attribute, attribute_value, product_line,
                   productline_attribute_values, productline_attributevalue,
                   product_image, seq, now>>

\* Product_ProductType(product=p, product_type=t).save()
Product_ProductType_save(p, t) ==
    /\ p \in DOMAIN product
    /\ t \in DOMAIN product_type
    /\ seq["product_producttype"] <= MaxLink
    /\ product_producttype' = With(product_producttype, seq["product_producttype"],
                                   [product |-> p, product_type |-> t])
    /\ seq' = [seq EXCEPT !["product_producttype"] = @ + 1]
    /\ last' = Wrote("Product_ProductType.save", seq["product_producttype"],
                     << >>, << >>, "ok")
    /\ UNCHANGED <<category, seasonal_event, product_type, product,
                   product_product_type, attribute, attribute_value, product_line,
                   productline_attribute_values, productline_attributevalue,
                   product_image, now>>

\* ------------------------------------------------ Attribute, AttributeValue
Attribute_save(id, name) ==
    /\ id = NULL \/ id \in DOMAIN attribute
    /\ Room("attribute", id, MaxAttribute)
    /\ attribute' = With(attribute, PkOf("attribute", id), [name |-> name])
    /\ seq' = NextSeq("attribute", id)
    /\ last' = Wrote("Attribute.save", PkOf("attribute", id), name, << >>, "ok")
    /\ UNCHANGED <<category, seasonal_event, product_type, product,
                   product_product_type, product_producttype, attribute_value,
                   product_line, productline_attribute_values,
                   productline_attributevalue, product_image, now>>

AttributeValue_save(id, a) ==
    /\ id = NULL \/ id \in DOMAIN attribute_value
    /\ Room("attribute_value", id, MaxAttributeValue)
    /\ a \in DOMAIN attribute
    /\ attribute_value' = With(attribute_value, PkOf("attribute_value", id),
                               [attribute |-> a])
    /\ seq' = NextSeq("attribute_value", id)
    /\ last' = Wrote("AttributeValue.save", PkOf("attribute_value", id),
                     << >>, << >>, "ok")
    /\ UNCHANGED <<category, seasonal_event, product_type, product,
                   product_product_type, product_producttype, attribute,
                   product_line, productline_attribute_values,
                   productline_attributevalue, product_image, now>>

\* the cascade from a set of AttributeValue rows: ProductLine_AttributeValue
\* .attribute_value and the ManyToManyField's table are on_delete=CASCADE
AttributeValue_cascade(vs) ==
    /\ attribute_value' = Without(attribute_value, vs)
    /\ productline_attributevalue' =
           Without(productline_attributevalue,
                   Referring(productline_attributevalue, "attribute_value", vs))
    /\ productline_attribute_values' =
           {r \in productline_attribute_values : r[2] \notin vs}

AttributeValue_delete(v) ==
    /\ v \in DOMAIN attribute_value
    /\ AttributeValue_cascade({v})
    /\ last' = Wrote("AttributeValue.delete", v, << >>, << >>, "ok")
    /\ UNCHANGED <<category, seasonal_event, product_type, product,
                   product_product_type, product_producttype, attribute,
                   product_line, product_image, seq, now>>

\* AttributeValue.attribute is on_delete=CASCADE
Attribute_delete(a) ==
    /\ a \in DOMAIN attribute
    /\ attribute' = Without(attribute, {a})
    /\ AttributeValue_cascade(Referring(attribute_value, "attribute", {a}))
    /\ last' = Wrote("Attribute.delete", a, << >>, << >>, "ok")
    /\ UNCHANGED <<category, seasonal_event, product_type, product,
                   product_product_type, product_producttype,
                   product_line, product_image, seq, now>>

\* -------------------------------------------------------------- ProductLine
\* the identifiers a caller may pass as sku, or uuid.uuid4 may return
SKUs == {"sku-1", "sku-2"}

\* sku=DEFAULT: the caller passes no sku
DEFAULT == "default"

\* the values uuid.uuid4() may return: a random identifier, taken not to repeat
\* one in use
uuid4 == SKUs \ {product_line[l].sku : l \in DOMAIN product_line}

\* the skus a save with argument sku may store: the given one, the field default
\* on a new instance, the loaded one otherwise
ProductLine_sku(id, sku) ==
    IF sku # DEFAULT THEN {sku}
    ELSE IF id = NULL THEN uuid4
    ELSE {product_line[id].sku}

\* ProductLine.save; sku carries no unique constraint
ProductLine_save(id, sku, p) ==
    /\ id = NULL \/ id \in DOMAIN product_line
    /\ Room("product_line", id, MaxProductLine)
    /\ p \in DOMAIN product
    /\ \E u \in ProductLine_sku(id, sku) :
           product_line' = With(product_line, PkOf("product_line", id),
                                [sku |-> u, product |-> p])
    /\ seq' = NextSeq("product_line", id)
    /\ last' = Wrote("ProductLine.save", PkOf("product_line", id), << >>, << >>, "ok")
    /\ UNCHANGED <<category, seasonal_event, product_type, product,
                   product_product_type, product_producttype, attribute,
                   attribute_value, productline_attribute_values,
                   productline_attributevalue, product_image, now>>

\* ProductImage.product_line, ProductLine_AttributeValue.product_line and the
\* ManyToManyField's table are on_delete=CASCADE
ProductLine_delete(l) ==
    /\ l \in DOMAIN product_line
    /\ product_line' = Without(product_line, {l})
    /\ product_image' = Without(product_image,
                                Referring(product_image, "product_line", {l}))
    /\ productline_attributevalue' =
           Without(productline_attributevalue,
                   Referring(productline_attributevalue, "product_line", {l}))
    /\ productline_attribute_values' =
           {r \in productline_attribute_values : r[1] # l}
    /\ last' = Wrote("ProductLine.delete", l, << >>, << >>, "ok")
    /\ UNCHANGED <<category, seasonal_event, product_type, product,
                   product_product_type, product_producttype, attribute,
                   attribute_value, seq, now>>

\* product_line.attribute_values.add(v)
ProductLine_attribute_values_add(l, v) ==
    /\ l \in DOMAIN product_line
    /\ v \in DOMAIN attribute_value
    /\ productline_attribute_values' = productline_attribute_values \cup {<<l, v>>}
    /\ last' = Wrote("ProductLine.attribute_values.add", l, << >>, << >>, "ok")
    /\ UNCHANGED <<category, seasonal_event, product_type, product,
                   product_product_type, product_producttype, attribute,
                   attribute_value, product_line, productline_attributevalue,
                   product_image, seq, now>>

\* ProductLine_AttributeValue(attribute_value=v, product_line=l).save()
ProductLine_AttributeValue_save(v, l) ==
    /\ l \in DOMAIN product_line
    /\ v \in DOMAIN attribute_value
    /\ seq["productline_attributevalue"] <= MaxLink
    /\ productline_attributevalue' =
           With(productline_attributevalue, seq["productline_attributevalue"],
                [attribute_value |-> v, product_line |-> l])
    /\ seq' = [seq EXCEPT !["productline_attributevalue"] = @ + 1]
    /\ last' = Wrote("ProductLine_AttributeValue.save",
                     seq["productline_attributevalue"], << >>, << >>, "ok")
    /\ UNCHANGED <<category, seasonal_event, product_type, product,
                   product_product_type, product_producttype, attribute,
                   attribute_value, product_line, productline_attribute_values,
                   product_image, now>>

\* ------------------------------------------------------------- ProductImage
ProductImage_save(id, l) ==
    /\ id = NULL \/ id \in DOMAIN product_image
    /\ Room("product_image", id, MaxProductImage)
    /\ l \in DOMAIN product_line
    /\ product_image' = With(product_image, PkOf("product_image", id),
                             [product_line |-> l])
    /\ seq' = NextSeq("product_image", id)
    /\ last' = Wrote("ProductImage.save", PkOf("product_image", id), << >>, << >>, "ok")
    /\ UNCHANGED <<category, seasonal_event, product_type, product,
                   product_product_type, product_producttype, attribute,
                   attribute_value, product_line, productline_attribute_values,
                   productline_attributevalue, now>>

\* ----------------------------------------------------------------- the clock
Tick ==
    /\ now < MaxTime
    /\ now' = now + 1
    /\ UNCHANGED <<category, seasonal_event, product_type, product,
                   product_product_type, product_producttype, attribute,
                   attribute_value, product_line, productline_attribute_values,
                   productline_attributevalue, product_image, seq, last>>

\* ------------------------------------------------------------------ inputs
OutdoorGear == <<"O","u","t","d","o","o","r"," ","G","e","a","r">>

outdoor_gear == <<"o","u","t","d","o","o","r","-","g","e","a","r">>

\* names: the example, one with an accent, one whose slug is empty
Names == {OutdoorGear, <<"É"," ","b">>, <<"ß","!","_">>}

\* slugs a caller may pass; the empty one asks for the derived slug
Slugs == {<< >>, outdoor_gear}

PlainNames == {<<"a">>, <<"b">>}

Statuses == STOCK_STATUS \cup {"XX"}

Ids(t) == DOMAIN t \cup {NULL}

\* the name of the n-th row of a table, where only its being unique matters
RowName(n) == [i \in 1..n |-> "x"]

\* the name a save of instance id of table t passes: a new row's, or the loaded
NameOf(t, key, id) == IF id = NULL THEN RowName(seq[key]) ELSE t[id].name

\* ----------------------------------------------------------- specifications
\* the hierarchies: Category and ProductType rows, their parents, their deletes
NextHierarchy ==
    \/ \E id \in Ids(category), parent \in Ids(category) :
           Category_save(id, NameOf(category, "category", id), << >>, FALSE, parent)
    \/ \E c \in DOMAIN category : Category_delete(c)
    \/ \E id \in Ids(product_type), parent \in Ids(product_type) :
           ProductType_save(id, NameOf(product_type, "product_type", id), parent)
    \/ \E t \in DOMAIN product_type : ProductType_delete(t)

SpecHierarchy == Init /\ [][NextHierarchy]_vars

\* references from a Product to Category and SeasonalEvent
NextReference ==
    \/ \E parent \in Ids(category) :
           Category_save(NULL, RowName(seq["category"]), << >>, FALSE, parent)
    \/ \E c \in DOMAIN category : Category_delete(c)
    \/ SeasonalEvent_save(NULL, <<"s">>)
    \/ \E e \in DOMAIN seasonal_event : SeasonalEvent_delete(e)
    \/ \E name \in PlainNames, c \in Ids(category), e \in Ids(seasonal_event) :
           Product_save(NULL, name, << >>, OUT_OF_STOCK, c, e)
    \/ Tick

SpecReference == Init /\ [][NextReference]_vars

\* names and slugs of saved rows
NextSlug ==
    \/ \E id \in Ids(category), name \in Names, slug \in Slugs :
           Category_save(id, name, slug, FALSE, NULL)
    \/ \E id \in Ids(seasonal_event), name \in PlainNames : SeasonalEvent_save(id, name)
    \/ \E id \in Ids(product), name \in Names \ {OutdoorGear}, slug \in Slugs :
           Product_save(id, name, slug, OUT_OF_STOCK, NULL, NULL)

SpecSlug == Init /\ [][NextSlug]_vars

\* stock status and timestamps of saved products
NextStamp ==
    \/ Category_save(NULL, <<"c">>, << >>, FALSE, NULL)
    \/ \E id \in Ids(product), name \in PlainNames, st \in Statuses, c \in Ids(category) :
           Product_save(id, name, << >>, st, c, NULL)
    \/ \E id \in Ids(product), name \in PlainNames, st \in Statuses, c \in Ids(category) :
           ProductAdmin_save(id, name, << >>, st, c, NULL)
    \/ Tick

SpecStamp == Init /\ [][NextStamp]_vars

\* a product, its type and its lines
NextProduct ==
    \/ Product_save(NULL, <<"p">>, << >>, OUT_OF_STOCK, NULL, NULL)
    \/ \E p \in DOMAIN product : Product_delete(p)
    \/ product_type = Empty /\ ProductType_save(NULL, <<"t">>, NULL)
    \/ \E t \in DOMAIN product_type : ProductType_delete(t)
    \/ \E p \in DOMAIN product, t \in DOMAIN product_type : Product_product_type_add(p, t)
    \/ \E p \in DOMAIN product, t \in DOMAIN product_type : Product_ProductType_save(p, t)
    \/ \E id \in Ids(product_line), sku \in SKUs \cup {DEFAULT}, p \in DOMAIN product :
           ProductLine_save(id, sku, p)
    \/ \E l \in DOMAIN product_line : ProductLine_delete(l)

SpecProduct == Init /\ [][NextProduct]_vars

\* product lines and what hangs on a line
NextLine ==
    \/ Product_save(NULL, <<"p">>, << >>, OUT_OF_STOCK, NULL, NULL)
    \/ attribute = Empty /\ Attribute_save(NULL, <<"color">>)
    \/ \E a \in DOMAIN attribute : AttributeValue_save(NULL, a)
    \/ \E p \in DOMAIN product : ProductLine_save(NULL, DEFAULT, p)
    \/ \E l \in DOMAIN product_line : ProductLine_delete(l)
    \/ \E l \in DOMAIN product_line, v \in DOMAIN attribute_value :
           ProductLine_attribute_values_add(l, v)
    \/ \E l \in DOMAIN product_line, v \in DOMAIN attribute_value :
           ProductLine_AttributeValue_save(v, l)
    \/ \E l \in DOMAIN product_line : ProductImage_save(NULL, l)

SpecLine == Init /\ [][NextLine]_vars

\* every write of the catalog
Next ==
    \/ \E id \in Ids(category), name \in Names, slug \in Slugs, active \in BOOLEAN,
          parent \in Ids(category) : Category_save(id, name, slug, active, parent)
    \/ \E c \in DOMAIN category : Category_delete(c)
    \/ \E id \in Ids(seasonal_event), name \in PlainNames : SeasonalEvent_save(id, name)
    \/ \E e \in DOMAIN seasonal_event : SeasonalEvent_delete(e)
    \/ \E id \in Ids(product_type), name \in PlainNames, parent \in Ids(product_type) :
           ProductType_save(id, name, parent)
    \/ \E t \in DOMAIN product_type : ProductType_delete(t)
    \/ \E id \in Ids(product), name \in Names, slug \in Slugs, st \in Statuses,
          c \in Ids(category), e \in Ids(seasonal_event) :
           \/ Product_save(id, name, slug, st, c, e)
           \/ ProductAdmin_save(id, name, slug, st, c, e)
    \/ \E p \in DOMAIN product : Product_delete(p)
    \/ \E p \in DOMAIN product, t \in DOMAIN product_type :
           \/ Product_product_type_add(p, t)
           \/ Product_ProductType_save(p, t)
    \/ \E id \in Ids(attribute), name \in PlainNames : Attribute_save(id, name)
    \/ \E a \in DOMAIN attribute : Attribute_delete(a)
    \/ \E id \in Ids(attribute_value), a \in DOMAIN attribute : AttributeValue_save(id, a)
    \/ \E v \in DOMAIN attribute_value : AttributeValue_delete(v)
    \/ \E id \in Ids(product_line), sku \in SKUs \cup {DEFAULT}, p \in DOMAIN product :
           ProductLine_save(id, sku, p)
    \/ \E l \in DOMAIN product_line : ProductLine_delete(l)
    \/ \E l \in DOMAIN product_line, v \in DOMAIN attribute_value :
           \/ ProductLine_attribute_values_add(l, v)
           \/ ProductLine_AttributeValue_save(v, l)
    \/ \E id \in Ids(product_image), l \in DOMAIN product_line : ProductImage_save(id, l)
    \/ Tick

Spec == Init /\ [][Next]_vars

\* ------------------------------------------------------------- properties
\* a step of the write named op: every write records itself in last, and only
\* the clock's step moves now
Did(op) == last'.op = op /\ now' = now

\* following parent n times from row k of table t
RECURSIVE Up(_, _, _)
Up(t, k, n) == IF n = 0 \/ k = NULL THEN k ELSE Up(t, t[k].parent, n - 1)

\* C1: for Category and for ProductType, a delete of a row that another row
\* names as its parent fails with a protected error and removes nothing; a
\* delete of a row that no row names as its parent succeeds and removes it.
C1_ProtectedParent ==
    [][ /\ \A c \in DOMAIN category :
              Did("Category.delete") /\ last'.id = c =>
                  /\ (\E k \in DOMAIN category \ {c} : category[k].parent = c) =>
                         last'.result = "ProtectedError" /\ tables' = tables
                  /\ (\A k \in DOMAIN category : category[k].parent # c) =>
                         /\ last'.result = "ok"
                         /\ category' = [k \in DOMAIN category \ {c} |-> category[k]]
        /\ \A t \in DOMAIN product_type :
              Did("ProductType.delete") /\ last'.id = t =>
                  /\ (\E k \in DOMAIN product_type \ {t} : product_type[k].parent = t) =>
                         last'.result = "ProtectedError" /\ tables' = tables
                  /\ (\A k \in DOMAIN product_type : product_type[k].parent # t) =>
                         /\ last'.result = "ok"
                         /\ product_type' =
                                [k \in DOMAIN product_type \ {t} |-> product_type[k]]
      ]_vars

\* a delete of a ProductType was refused while its child is still stored, and a
\* Category without children has been deleted before
C1_Witness ==
    /\ last.op = "ProductType.delete"
    /\ last.result = "ProtectedError"
    /\ \E k \in DOMAIN product_type \ {last.id} : product_type[k].parent = last.id
    /\ seq["category"] > 1
    /\ category = Empty

\* C10: the parent references of Category, and of ProductType, form trees:
\* following parent from any row ends at a row without parent.
C10_Trees ==
    /\ \A k \in DOMAIN category : Up(category, k, Cardinality(DOMAIN category)) = NULL
    /\ \A k \in DOMAIN product_type :
           Up(product_type, k, Cardinality(DOMAIN product_type)) = NULL

\* C2: a delete of a Product fails whenever a ProductLine references it, and
\* once every ProductLine of the Product has been deleted the delete succeeds
\* and removes the Product with its linkage rows to ProductType.
C2_ProductAfterLines ==
    [][ \A p \in DOMAIN product :
            Did("Product.delete") /\ last'.id = p =>
                IF \E l \in DOMAIN product_line : product_line[l].product = p
                THEN last'.result = "ProtectedError" /\ tables' = tables
                ELSE /\ last'.result = "ok"
                     /\ product' = [k \in DOMAIN product \ {p} |-> product[k]]
                     /\ \A k \in DOMAIN product_producttype' :
                            product_producttype'[k].product # p
                     /\ \A r \in product_product_type' : r[1] # p
      ]_vars

\* the only Product ever stored had two lines and two linkage rows; both lines
\* were deleted, and then the delete of the Product went through
C2_Witness ==
    /\ last.op = "Product.delete"
    /\ last.result = "ok"
    /\ seq["product"] = 2
    /\ seq["product_line"] = 3
    /\ seq["product_producttype"] = 3
    /\ product_line = Empty
    /\ product = Empty
    /\ product_producttype = Empty

\* C3: a delete of a ProductLine succeeds and removes the line, every
\* ProductImage of the line and every linkage row of the line to an
\* AttributeValue; the AttributeValue rows, the Product, and the images and
\* linkage rows of the other lines stay as they were.
C3_LineCascade ==
    [][ \A l \in DOMAIN product_line :
            Did("ProductLine.delete") /\ last'.id = l =>
                /\ last'.result = "ok"
                /\ product_line' = [k \in DOMAIN product_line \ {l} |-> product_line[k]]
                /\ product_image' =
                       [k \in {i \in DOMAIN product_image :
                                  product_image[i].product_line # l}
                          |-> product_image[k]]
                /\ productline_attributevalue' =
                       [k \in {i \in DOMAIN productline_attributevalue :
                                  productline_attributevalue[i].product_line # l}
                          |-> productline_attributevalue[k]]
                /\ productline_attribute_values' =
                       {r \in productline_attribute_values : r[1] # l}
                /\ attribute_value' = attribute_value
                /\ attribute' = attribute
                /\ product' = product
      ]_vars

\* line 1 had an image and a linkage row and is deleted with them; line 2 keeps
\* its image and its linkage row, and the attribute value is still stored
C3_Witness ==
    /\ last.op = "ProductLine.delete"
    /\ last.id = 1
    /\ DOMAIN product_line = {2}
    /\ seq["product_image"] = 3
    /\ seq["productline_attributevalue"] = 3
    /\ \E i \in {1, 2} :
           DOMAIN product_image = {i} /\ product_image[i].product_line = 2
    /\ \E i \in {1, 2} :
           /\ DOMAIN productline_attributevalue = {i}
           /\ productline_attributevalue[i].product_line = 2
    /\ DOMAIN attribute_value = {1}

\* C4 as stated: a delete of a Category (of a SeasonalEvent) that Products
\* reference does not fail, and leaves every such Product stored with the
\* reference empty and its other fields as they were.
C4_NullOnDelete_AsStated ==
    [][ /\ \A c \in DOMAIN category :
              /\ Did("Category.delete") /\ last'.id = c
              /\ \E p \in DOMAIN product : product[p].category = c
              => /\ last'.result = "ok"
                 /\ c \notin DOMAIN category'
                 /\ product' = [p \in DOMAIN product |->
                                   IF product[p].category = c
                                   THEN [product[p] EXCEPT !.category = NULL]
                                   ELSE product[p]]
        /\ \A e \in DOMAIN seasonal_event :
              /\ Did("SeasonalEvent.delete") /\ last'.id = e
              /\ \E p \in DOMAIN product : product[p].seasonal_event = e
              => /\ last'.result = "ok"
                 /\ e \notin DOMAIN seasonal_event'
                 /\ product' = [p \in DOMAIN product |->
                                   IF product[p].seasonal_event = e
                                   THEN [product[p] EXCEPT !.seasonal_event = NULL]
                                   ELSE product[p]]
      ]_vars

\* C4, amended: a delete of a Category that Products reference and that no
\* Category names as its parent does not fail, and leaves every such Product
\* stored with the reference empty and its other fields as they were; with a
\* child Category the delete fails and changes nothing.  A delete of a
\* SeasonalEvent that Products reference does as stated.
C4_NullOnDelete ==
    [][ /\ \A c \in DOMAIN category :
              /\ Did("Category.delete") /\ last'.id = c
              /\ \E p \in DOMAIN product : product[p].category = c
              => IF \E k \in DOMAIN category : category[k].parent = c
                 THEN last'.result = "ProtectedError" /\ tables' = tables
                 ELSE /\ last'.result = "ok"
                      /\ c \notin DOMAIN category'
                      /\ product' = [p \in DOMAIN product |->
                                        IF product[p].category = c
                                        THEN [product[p] EXCEPT !.category = NULL]
                                        ELSE product[p]]
        /\ \A e \in DOMAIN seasonal_event :
              /\ Did("SeasonalEvent.delete") /\ last'.id = e
              /\ \E p \in DOMAIN product : product[p].seasonal_event = e
              => /\ last'.result = "ok"
                 /\ e \notin DOMAIN seasonal_event'
                 /\ product' = [p \in DOMAIN product |->
                                   IF product[p].seasonal_event = e
                                   THEN [product[p] EXCEPT !.seasonal_event = NULL]
                                   ELSE product[p]]
      ]_vars

\* a Category has been deleted after the clock moved: a Product saved before
\* that is stored with an empty category and its SeasonalEvent, another
\* Product keeps its Category
C4_Witness ==
    /\ last.op = "Category.delete"
    /\ last.result = "ok"
    /\ now = 1
    /\ \E p, q \in DOMAIN product :
           /\ product[p].category = NULL
           /\ product[p].seasonal_event # NULL
           /\ product[p].updated_at = 0
           /\ product[q].category \in DOMAIN category

\* C5: a Category or Product created without a slug is stored with the slug
\* slugify(name), "Outdoor Gear" giving "outdoor-gear"; a later save that
\* changes neither the name nor the slug of the loaded row stores the slug the
\* row had.
C5_Slug ==
    [][ /\ Did("Category.save") /\ last'.result = "ok" =>
              /\ last'.id \notin DOMAIN category /\ last'.slug = << >> =>
                     /\ category'[last'.id].slug = slugify(category'[last'.id].name)
                     /\ category'[last'.id].name = OutdoorGear =>
                            category'[last'.id].slug = outdoor_gear
              /\ /\ last'.id \in DOMAIN category
                 /\ last'.name = category[last'.id].name
                 /\ last'.slug = category[last'.id].slug
                 => category'[last'.id].slug = category[last'.id].slug
        /\ Did("Product.save") /\ last'.result = "ok" =>
              /\ last'.id \notin DOMAIN product /\ last'.slug = << >> =>
                     /\ product'[last'.id].slug = slugify(product'[last'.id].name)
                     /\ product'[last'.id].name = OutdoorGear =>
                            product'[last'.id].slug = outdoor_gear
              /\ /\ last'.id \in DOMAIN product
                 /\ last'.name = product[last'.id].name
                 /\ last'.slug = product[last'.id].slug
                 => product'[last'.id].slug = product[last'.id].slug
      ]_vars

\* the Category "Outdoor Gear" was created without a slug and is stored with the
\* slug "outdoor-gear", next to a Product whose slug was given
C5_Witness ==
    /\ last.op = "Category.save"
    /\ last.result = "ok"
    /\ last.slug = << >>
    /\ last.name = OutdoorGear
    /\ last.id = seq["category"] - 1
    /\ category[last.id].slug = outdoor_gear
    /\ \E p \in DOMAIN product : product[p].slug = outdoor_gear

\* no two rows of t share the value of field f
UniqueField(t, f) == \A i, j \in DOMAIN t : i # j => t[i][f] # t[j][f]

\* the slug a save called with name and slug stores
StoredSlug(name, slug) == IF slug = << >> THEN slugify(name) ELSE slug

\* C6: no two Category rows share a name or a slug, no two Product rows share a
\* name or a slug, no two SeasonalEvent rows share a name; a save that would
\* store such a duplicate, the slug derived from the name included, fails with
\* a uniqueness error and leaves the stored rows as they were.
C6_Unique ==
    /\ [](/\ UniqueField(category, "name") /\ UniqueField(category, "slug")
          /\ UniqueField(product, "name") /\ UniqueField(product, "slug")
          /\ UniqueField(seasonal_event, "name"))
    /\ [][ /\ /\ Did("Category.save")
              /\ \E k \in DOMAIN category \ {last'.id} :
                     \/ category[k].name = last'.name
                     \/ category[k].slug = StoredSlug(last'.name, last'.slug)
              => last'.result = "IntegrityError" /\ tables' = tables
           /\ /\ Did("Product.save")
              /\ \E k \in DOMAIN product \ {last'.id} :
                     \/ product[k].name = last'.name
                     \/ product[k].slug = StoredSlug(last'.name, last'.slug)
              => last'.result = "IntegrityError" /\ tables' = tables
           /\ /\ Did("SeasonalEvent.save")
              /\ \E k \in DOMAIN seasonal_event \ {last'.id} :
                     seasonal_event[k].name = last'.name
              => last'.result = "IntegrityError" /\ tables' = tables
         ]_vars

\* a Category save without a slug was refused because the slug derived from its
\* name is the slug of a stored Category with another name
C6_Witness ==
    /\ last.op = "Category.save"
    /\ last.result = "IntegrityError"
    /\ last.slug = << >>
    /\ \A k \in DOMAIN category : category[k].name # last.name
    /\ \E k \in DOMAIN category : category[k].slug = slugify(last.name)

\* C7: every stored Product has a stock_status among IS, OOS and BO.
C7_StockStatus == \A p \in DOMAIN product : product[p].stock_status \in {"IS", "OOS", "BO"}

\* C8: no two stored ProductLine rows have the same sku.
C8_UniqueSku ==
    \A i, j \in DOMAIN product_line : i # j => product_line[i].sku # product_line[j].sku

====
